---------------------------- MODULE Spec2Model ----------------------------
(***************************************************************************)
(* Model of the neuvon-be backend: the contact-only server (src/index.js)  *)
(* and the contact+blog server (src/unnamed/part_000).                     *)
(*                                                                         *)
(* Every request handler is an async function.  It is modelled as the      *)
(* steps between its awaits:                                               *)
(*   Request*  the synchronous part up to `await pool.getConnection()`     *)
(*             (validation included; a rejected request is answered here), *)
(*   getConnection  the pool hands the waiting handler a connection,       *)
(*   Execute*  the store runs the single statement and the handler's       *)
(*             continuation runs: connection.release() and the response on *)
(*             the success path, the catch block on the error path.        *)
(* The relational store (MySQL) is modelled by the table constraints that  *)
(* the CREATE TABLE statements of the source declare.                      *)
(*                                                                         *)
(* Specifications:                                                         *)
(*   Spec         the blog routes, two requests in flight                  *)
(*   SpecContact  the contact routes, for every contact form body          *)
(*   SpecStartup  the provisioners, app.listen and GET /api/contacts, from *)
(*                every starting schema, the process started again         *)
(*   SpecTags     the blog routes of one client, for every tags value      *)
(*   SpecUpload   the image intake, the health check, the default route    *)
(*                and the error handling middleware                        *)
(*   SpecLive     the update route on the whole pool, with a fair pool and *)
(*                store                                                    *)
(*   SpecLoad     the top-level statements of either file, one by one,     *)
(*                and what the process does once it listens                *)
(* Spec, SpecContact, SpecTags, SpecUpload and SpecLive begin with the     *)
(* server listening and the schema provisioned; SpecStartup begins with    *)
(* the pool created and the provisioners not yet called; SpecLoad begins   *)
(* with the first statement of the file.                                   *)
(***************************************************************************)
EXTENDS Naturals, Sequences, FiniteSets

VARIABLES
    blogs,          \* rows of table blogs
    nextId,         \* AUTO_INCREMENT counter of blogs.id
    contacts,       \* rows of table contacts
    nextContactId,  \* AUTO_INCREMENT counter of contacts.id
    tasks,          \* one record per request slot: where its handler stands
    checkedOut,     \* connections of the pool that are checked out
    response,       \* the response sent by the last step (NoResponse if none)
    req,            \* what the client sends: the contact form body, or the
                    \* file part of the upload
    freedSlugs,     \* history: slugs of deleted rows, not since created again
    deletedIds,     \* history: ids of deleted rows
    acked,          \* history: contact rows acknowledged with a 201
    leakCap,        \* the run is followed until so many connections leaked
    schema,         \* tables, columns and indexes that exist in the store
    prov,           \* where each schema provisioner stands
    process,        \* "loading", "listening", or "aborted" by an uncaught error
    log,            \* what console.error has logged
    hist,           \* history: the provisioning runs (SpecStartup), the
                    \* fields last written (SpecTags), the files stored
                    \* (SpecUpload)
    load            \* the module being loaded: the file, the statement to
                    \* run next, and the names that are bound so far

\* The state of the store's schema and of the process start
startVars == <<leakCap, schema, prov, process, log, hist, load>>

vars == <<blogs, nextId, contacts, nextContactId, tasks, checkedOut,
          response, req, freedSlugs, deletedIds, acked, startVars>>

---------------------------------------------------------------------------
(* Bounds of the model *)

MaxId == 2
MaxLeaks == 1
MaxContactId == 2
MaxEmailLen == 5
MaxRuns == 2
MaxTags == 2
MaxNameLen == 4

TaskIds == {"t1", "t2"}
Slugs == {"s1", "s2"}
Titles == {"t"}

(* Program constants *)

connectionLimit == 10

---------------------------------------------------------------------------
(* JavaScript values *)

Absent == "undefined"      \* a field the request body does not carry
Null == "null"

\* !x for the string-valued fields: undefined, null and "" are falsy.
Falsy(x) == x = Absent \/ x = Null \/ x = ""

\* Mutant of OrElse: the value without a default
OrElseNothing(x, d) == x

\* x || d for the string-valued fields
OrElse(x, d) == IF Falsy(x) THEN d ELSE x

\* The tags field of a request body: absent, or an array of strings.  An
\* array, also the empty one, is truthy.
NoTags == [present |-> FALSE, val |-> <<>>]
Tags(seq) == [present |-> TRUE, val |-> seq]

\* tags || []
TagsOrEmpty(tags) == IF tags.present THEN tags.val ELSE <<>>

---------------------------------------------------------------------------
(* JSON text of an array of strings, as a sequence of tokens *)

RECURSIVE JSONelements(_)
JSONelements(seq) ==
    IF seq = <<>> THEN <<>>
    ELSE <<"\"", Head(seq), "\"">> \o
         (IF Tail(seq) = <<>> THEN <<>> ELSE <<",">> \o JSONelements(Tail(seq)))

\* JSON.stringify(array of strings)
JSONstringify(seq) == <<"[">> \o JSONelements(seq) \o <<"]">>

\* The strings between the quotes of the element list text[i..], each
\* element being the four tokens  " s " ,  (the last one without the comma).
RECURSIVE JSONparseFrom(_, _)
JSONparseFrom(text, i) ==
    IF i + 2 > Len(text) \/ text[i] # "\"" THEN <<>>
    ELSE <<text[i + 1]>> \o JSONparseFrom(text, i + 4)

\* JSON.parse(text) for the text of an array of strings
JSONparse(text) == JSONparseFrom(text, 2)

\* The value the driver hands back for the JSON column tags: the stored text
\* itself, or the array the driver decoded from it.
DriverValue(stored, decoded) ==
    IF decoded THEN [type |-> "object", val |-> JSONparse(stored)]
    ELSE [type |-> "string", val |-> stored]

\* Mutant of ReadTags: the driver's value handed on as it is
ReadTagsRaw(v) == v.val

\* typeof blog.tags === 'string' ? JSON.parse(blog.tags) : blog.tags
ReadTags(v) == IF v.type = "string" THEN JSONparse(v.val) ELSE v.val

---------------------------------------------------------------------------
(* Request bodies *)

\* A blog body.  title stands for the eight further required fields
\* (excerpt, content, author_name, author_role, category, read_time,
\* published_at): the handlers validate and bind them exactly like title.
TagInputs == {NoTags}
StatusInputs == {Absent, "published"}
BlogBodies ==
    [slug : Slugs \cup {Absent}, title : Titles,
     tags : TagInputs, status : StatusInputs]
NoBody == [slug |-> Absent, title |-> Absent, tags |-> NoTags, status |-> Absent]
SlugOnly(slug) == [NoBody EXCEPT !.slug = slug]

\* The :id of a request: an id that is, was or is not yet a row's
Ids == 1 .. MaxId

\* late (history): a getBySlug requested for the slug of a deleted row
IdleTask ==
    [pc |-> "idle", op |-> "none", id |-> 0, body |-> NoBody, late |-> FALSE]
Task(pc, op, id, body) ==
    [pc |-> pc, op |-> op, id |-> id, body |-> body,
     late |-> op = "getBySlug" /\ body.slug \in freedSlugs]

NoResponse ==
    [op |-> "none", status |-> 0, data |-> Null, id |-> 0, body |-> NoBody,
     fault |-> FALSE, late |-> FALSE]
Response(op, status, data, id, body, fault) ==
    [op |-> op, status |-> status, data |-> data, id |-> id, body |-> body,
     fault |-> fault, late |-> FALSE]

InFlight(op) == {t \in TaskIds : tasks[t].pc # "idle" /\ tasks[t].op = op}

---------------------------------------------------------------------------
(* The store: table blogs as CREATE TABLE declares it *)

\* Mutant of SlugTaken: the column declared without UNIQUE
SlugTakenNoConstraint(slug, exceptId) == FALSE

\* Mutant of SlugTaken: the updated row itself counts as a holder of the slug
SlugTakenAnyRow(slug, exceptId) == \E r \in blogs : r.slug = slug

\* slug VARCHAR(255) UNIQUE: a row other than exceptId holds the slug
SlugTaken(slug, exceptId) ==
    \E r \in blogs : r.slug = slug /\ r.id # exceptId

\* connection.execute(sql, params): the driver refuses a parameter list
\* that holds undefined (a TypeError, no statement reaches the store).
\* params lists the parameters that can be undefined: tagsJson, status and
\* the two image fields always carry a default.
BindsUndefined(params) == \E i \in 1 .. Len(params) : params[i] = Absent

\* INSERT INTO blogs (...) VALUES (...)
InsertBlog(slug, title, tagsJson, status) ==
    IF SlugTaken(slug, 0)
    THEN [code |-> "ER_DUP_ENTRY", rows |-> blogs, insertId |-> 0]
    ELSE [code |-> "OK", insertId |-> nextId,
          rows |-> blogs \cup {[id |-> nextId, slug |-> slug, title |-> title,
                                tags |-> tagsJson, status |-> status]}]

\* Mutant of UpdateBlog: an UPDATE that sets slug and title and leaves the
\* other columns as they are
UpdateBlogKeepsRest(id, slug, title, tagsJson, status) ==
    IF SlugTaken(slug, id)
    THEN [code |-> "ER_DUP_ENTRY", affectedRows |-> 0, rows |-> blogs]
    ELSE [code |-> "OK",
          affectedRows |-> Cardinality({r \in blogs : r.id = id}),
          rows |-> {IF r.id = id
                    THEN [r EXCEPT !.slug = slug, !.title = title]
                    ELSE r : r \in blogs}]

\* UPDATE blogs SET ... WHERE id = ?   (affectedRows counts the matched rows)
UpdateBlog(id, slug, title, tagsJson, status) ==
    IF ~ \E r \in blogs : r.id = id
    THEN [code |-> "OK", rows |-> blogs, affectedRows |-> 0]
    ELSE IF SlugTaken(slug, id)
    THEN [code |-> "ER_DUP_ENTRY", rows |-> blogs, affectedRows |-> 0]
    ELSE [code |-> "OK", affectedRows |-> 1,
          rows |-> {r \in blogs : r.id # id} \cup
                   {[id |-> id, slug |-> slug, title |-> title,
                     tags |-> tagsJson, status |-> status]}]

\* Mutant of DeleteBlog: a soft delete that keeps the row
DeleteBlogKeepsRow(id) ==
    [code |-> "OK", rows |-> blogs,
     affectedRows |-> Cardinality({r \in blogs : r.id = id})]

\* DELETE FROM blogs WHERE id = ?
DeleteBlog(id) ==
    [code |-> "OK", rows |-> {r \in blogs : r.id # id},
     affectedRows |-> Cardinality({r \in blogs : r.id = id})]

\* Mutant of SelectPublished: the WHERE clause left out
SelectPublishedNoWhere == blogs

\* SELECT id, slug, title, ..., tags, ... FROM blogs WHERE status = 'published'
SelectPublished == {r \in blogs : r.status = "published"}

\* Mutant of SelectBySlug: the status condition left out
SelectBySlugAnyStatus(slug) == {r \in blogs : r.slug = slug}

\* SELECT * FROM blogs WHERE slug = ? AND status = 'published'
SelectBySlug(slug) == {r \in blogs : r.slug = slug /\ r.status = "published"}

\* SELECT * FROM blogs
SelectAll == blogs

\* { ...blog, tags: <parsed> } of a full row
FullRow(r, decoded) ==
    [id |-> r.id, slug |-> r.slug, title |-> r.title, status |-> r.status,
     tags |-> ReadTags(DriverValue(r.tags, decoded))]

\* { ...blog, tags: <parsed> } of a row of the reduced column set
SummaryRow(r, decoded) ==
    [id |-> r.id, slug |-> r.slug, title |-> r.title,
     tags |-> ReadTags(DriverValue(r.tags, decoded))]

---------------------------------------------------------------------------
(* Steps shared by the handlers *)

\* A step that leaves the blog table alone
BlogsUnchanged == UNCHANGED <<blogs, nextId, freedSlugs, deletedIds>>
ContactsUnchanged == UNCHANGED <<contacts, nextContactId, req, acked>>

\* The provisioners that hold a connection
Provisioners == {"contacts", "blogs"}
ProvHolding ==
    {p \in Provisioners : prov[p] \notin {"notCalled", "waiting", "done"}}

\* Connections checked out that neither a handler in flight nor a running
\* provisioner holds
Leaked ==
    checkedOut - Cardinality({t \in TaskIds : tasks[t].pc = "executing"})
               - Cardinality(ProvHolding)

\* The synchronous part of a handler ends at `await pool.getConnection()`.
\* The run is followed until leakCap connections have leaked.
Await(t, op, id, body) ==
    /\ tasks[t].pc = "idle"
    /\ Leaked < leakCap
    /\ tasks' = [tasks EXCEPT ![t] = Task("waiting", op, id, body)]
    /\ response' = NoResponse
    /\ UNCHANGED checkedOut

\* pool.getConnection() resolves: waitForConnections with connectionLimit
getConnection(t) ==
    /\ tasks[t].pc = "waiting"
    /\ checkedOut < connectionLimit
    /\ checkedOut' = checkedOut + 1
    /\ tasks' = [tasks EXCEPT ![t].pc = "executing"]
    /\ response' = NoResponse
    /\ BlogsUnchanged /\ ContactsUnchanged

\* connection.release() followed by the response of the success path
ReleaseAndRespond(t, r) ==
    /\ checkedOut' = checkedOut - 1
    /\ tasks' = [tasks EXCEPT ![t] = IdleTask]
    /\ response' = r

\* The catch block: it responds and never calls connection.release()
CatchAndRespond(t, r) ==
    /\ checkedOut' = checkedOut
    /\ tasks' = [tasks EXCEPT ![t] = IdleTask]
    /\ response' = r

\* Mutant of DupOr500: the catch block without the ER_DUP_ENTRY branch
DupOr500NoBranch(code) == 500

\* catch of create and update: ER_DUP_ENTRY is answered 400, the rest 500
DupOr500(code) == IF code = "ER_DUP_ENTRY" THEN 400 ELSE 500

---------------------------------------------------------------------------
(* GET /api/blogs *)

RequestListPublished(t) ==
    /\ Await(t, "listPublished", 0, NoBody)
    /\ BlogsUnchanged /\ ContactsUnchanged

ExecuteListPublished(t) ==
    /\ tasks[t].pc = "executing" /\ tasks[t].op = "listPublished"
    /\ \E fault \in BOOLEAN, decoded \in BOOLEAN :
         IF fault
         THEN CatchAndRespond(t, Response("listPublished", 500, Null, 0, NoBody, TRUE))
         ELSE ReleaseAndRespond(t, Response("listPublished", 200,
                  {SummaryRow(r, decoded) : r \in SelectPublished}, 0, NoBody, FALSE))
    /\ BlogsUnchanged /\ ContactsUnchanged

(* GET /api/blogs/:slug *)

RequestGetBySlug(t, slug) ==
    /\ Await(t, "getBySlug", 0, SlugOnly(slug))
    /\ BlogsUnchanged /\ ContactsUnchanged

ExecuteGetBySlug(t) ==
    /\ tasks[t].pc = "executing" /\ tasks[t].op = "getBySlug"
    /\ LET body == tasks[t].body
           rows == SelectBySlug(body.slug)
       IN \E fault \in BOOLEAN, decoded \in BOOLEAN :
            IF fault
            THEN CatchAndRespond(t, [Response("getBySlug", 500, Null, 0, body, TRUE)
                                       EXCEPT !.late = tasks[t].late])
            ELSE IF rows = {}
            THEN ReleaseAndRespond(t, [Response("getBySlug", 404, Null, 0, body, FALSE)
                                         EXCEPT !.late = tasks[t].late])
            ELSE \E r \in rows :
                   ReleaseAndRespond(t, [Response("getBySlug", 200,
                       FullRow(r, decoded), 0, body, FALSE)
                                           EXCEPT !.late = tasks[t].late])
    /\ BlogsUnchanged /\ ContactsUnchanged

(* GET /api/admin/blogs *)

RequestListAll(t) ==
    /\ Await(t, "listAll", 0, NoBody)
    /\ BlogsUnchanged /\ ContactsUnchanged

ExecuteListAll(t) ==
    /\ tasks[t].pc = "executing" /\ tasks[t].op = "listAll"
    /\ \E fault \in BOOLEAN, decoded \in BOOLEAN :
         IF fault
         THEN CatchAndRespond(t, Response("listAll", 500, Null, 0, NoBody, TRUE))
         ELSE ReleaseAndRespond(t, Response("listAll", 200,
                  {FullRow(r, decoded) : r \in SelectAll}, 0, NoBody, FALSE))
    /\ BlogsUnchanged /\ ContactsUnchanged

---------------------------------------------------------------------------
(* POST /api/admin/blogs *)

\* if (!slug || !title || ... || !published_at)
MissingRequired(body) == Falsy(body.slug) \/ Falsy(body.title)

RequestCreate(t, body) ==
    /\ tasks[t].pc = "idle"
    /\ nextId + Cardinality(InFlight("create")) <= MaxId
    /\ IF MissingRequired(body)
       THEN /\ response' = Response("create", 400, Null, 0, body, FALSE)
            /\ UNCHANGED <<tasks, checkedOut>>
       ELSE Await(t, "create", 0, body)
    /\ BlogsUnchanged /\ ContactsUnchanged

ExecuteCreate(t) ==
    /\ tasks[t].pc = "executing" /\ tasks[t].op = "create"
    /\ LET body == tasks[t].body
           tagsJson == JSONstringify(TagsOrEmpty(body.tags))
           result == InsertBlog(body.slug, body.title, tagsJson,
                                OrElse(body.status, "draft"))
       IN \E fault \in BOOLEAN :
            IF fault
            THEN /\ CatchAndRespond(t, Response("create", 500, Null, 0, body, TRUE))
                 /\ BlogsUnchanged
            ELSE IF result.code # "OK"
            THEN /\ CatchAndRespond(t, Response("create", DupOr500(result.code),
                                                Null, 0, body, FALSE))
                 /\ BlogsUnchanged
            ELSE /\ ReleaseAndRespond(t, Response("create", 201,
                        [id |-> result.insertId, slug |-> body.slug], 0, body, FALSE))
                 /\ blogs' = result.rows
                 /\ nextId' = nextId + 1
                 /\ freedSlugs' = freedSlugs \ {body.slug}
                 /\ UNCHANGED deletedIds
    /\ ContactsUnchanged

---------------------------------------------------------------------------
(* PUT /api/admin/blogs/:id *)

RequestUpdate(t, id, body) ==
    /\ Await(t, "update", id, body)
    /\ BlogsUnchanged /\ ContactsUnchanged

ExecuteUpdate(t) ==
    /\ tasks[t].pc = "executing" /\ tasks[t].op = "update"
    /\ LET body == tasks[t].body
           id == tasks[t].id
           tagsJson == JSONstringify(TagsOrEmpty(body.tags))
           result == UpdateBlog(id, body.slug, body.title, tagsJson,
                                OrElse(body.status, "draft"))
       IN \E fault \in BOOLEAN :
            IF fault \/ BindsUndefined(<<body.slug, body.title>>)
            THEN /\ CatchAndRespond(t, Response("update", 500, Null, id, body, fault))
                 /\ BlogsUnchanged
            ELSE IF result.code # "OK"
            THEN /\ CatchAndRespond(t, Response("update", DupOr500(result.code),
                                                Null, id, body, FALSE))
                 /\ BlogsUnchanged
            ELSE /\ ReleaseAndRespond(t, Response("update",
                        IF result.affectedRows = 0 THEN 404 ELSE 200,
                        Null, id, body, FALSE))
                 /\ blogs' = result.rows
                 /\ UNCHANGED <<nextId, freedSlugs, deletedIds>>
    /\ ContactsUnchanged

---------------------------------------------------------------------------
(* DELETE /api/admin/blogs/:id *)

RequestDelete(t, id) ==
    /\ Await(t, "delete", id, NoBody)
    /\ BlogsUnchanged /\ ContactsUnchanged

ExecuteDelete(t) ==
    /\ tasks[t].pc = "executing" /\ tasks[t].op = "delete"
    /\ LET id == tasks[t].id
           result == DeleteBlog(id)
       IN \E fault \in BOOLEAN :
            IF fault
            THEN /\ CatchAndRespond(t, Response("delete", 500, Null, id, NoBody, TRUE))
                 /\ BlogsUnchanged
            ELSE /\ ReleaseAndRespond(t, Response("delete",
                        IF result.affectedRows = 0 THEN 404 ELSE 200,
                        Null, id, NoBody, FALSE))
                 /\ blogs' = result.rows
                 /\ freedSlugs' = freedSlugs \cup {r.slug : r \in blogs \ result.rows}
                 /\ deletedIds' = deletedIds \cup {r.id : r \in blogs \ result.rows}
                 /\ UNCHANGED nextId
    /\ ContactsUnchanged

---------------------------------------------------------------------------
(* Contact form bodies *)

\* An email is a sequence of characters; " " stands for any whitespace and
\* "a" for any character that is neither whitespace, "@" nor ".".
EmailChars == {"a", "@", ".", " "}

RECURSIVE StringsUpTo(_)
StringsUpTo(n) ==
    IF n = 0 THEN {<<>>}
    ELSE LET shorter == StringsUpTo(n - 1)
         IN shorter \cup {Append(e, c) : e \in shorter, c \in EmailChars}

\* The email field: absent, or a string (also the empty one)
NoEmail == [present |-> FALSE, chars |-> <<>>]
Email(chars) == [present |-> TRUE, chars |-> chars]
EmailInputs == {NoEmail} \cup {Email(e) : e \in StringsUpTo(MaxEmailLen)}

ContactBody(name, email, message) ==
    [name |-> name, email |-> email, message |-> message]
NoContactBody == ContactBody(Absent, NoEmail, Absent)

\* Every email with a name and a message, and every way to leave name or
\* message out or empty with an email
ContactBodies ==
    {ContactBody("n", e, "m") : e \in EmailInputs} \cup
    {ContactBody(n, Email(<<"a", "@", "a", ".", "a">>), m) :
        n \in {Absent, "", "n"}, m \in {Absent, "", "m"}}

\* !email
FalsyEmail(email) == ~email.present \/ email.chars = <<>>

\* [^\s@]
NotSpaceNorAt(c) == c # " " /\ c # "@"

\* /^[^\s@]+@[^\s@]+\.[^\s@]+$/ as an automaton: 0 start, 1 in the local
\* part, 2 after "@", 3 in the domain, 4 after a "\.", 5 in the last part.
RegexStep(q, c) ==
    (IF q \in {0, 1} /\ NotSpaceNorAt(c) THEN {1} ELSE {}) \cup
    (IF q = 1 /\ c = "@" THEN {2} ELSE {}) \cup
    (IF q \in {2, 3} /\ NotSpaceNorAt(c) THEN {3} ELSE {}) \cup
    (IF q = 3 /\ c = "." THEN {4} ELSE {}) \cup
    (IF q \in {4, 5} /\ NotSpaceNorAt(c) THEN {5} ELSE {})

RECURSIVE RegexRun(_, _)
RegexRun(states, chars) ==
    IF chars = <<>> THEN states
    ELSE RegexRun(UNION {RegexStep(q, Head(chars)) : q \in states}, Tail(chars))

\* Mutant of emailRegexTest: the pattern without its "\.[^\s@]+" part
emailRegexTestNoDot(chars) == RegexRun({0}, chars) \cap {3, 5} # {}

\* emailRegex.test(email)
emailRegexTest(chars) == 5 \in RegexRun({0}, chars)

---------------------------------------------------------------------------
(* The store: table contacts as CREATE TABLE declares it *)

\* Mutant of InsertContact: an insert that replaces the row of the same email
InsertContactPerEmail(name, email, message) ==
    [code |-> "OK", insertId |-> nextContactId,
     rows |-> {r \in contacts : r.email # email} \cup
              {[id |-> nextContactId, name |-> name, email |-> email,
                message |-> message]}]

\* INSERT INTO contacts (name, email, message) VALUES (?, ?, ?)
InsertContact(name, email, message) ==
    [code |-> "OK", insertId |-> nextContactId,
     rows |-> contacts \cup
              {[id |-> nextContactId, name |-> name, email |-> email,
                message |-> message]}]

\* SELECT * FROM contacts
SelectContacts == contacts

---------------------------------------------------------------------------
(* POST /api/contact *)

RequestSubmit(t) ==
    /\ tasks[t].pc = "idle"
    /\ nextContactId + Cardinality(InFlight("submit")) <= MaxContactId
    /\ IF Falsy(req.name) \/ FalsyEmail(req.email) \/ Falsy(req.message)
       THEN /\ response' = Response("submit", 400, Null, 0, NoBody, FALSE)
            /\ UNCHANGED <<tasks, checkedOut>>
       ELSE IF ~emailRegexTest(req.email.chars)
       THEN /\ response' = Response("submit", 400, Null, 0, NoBody, FALSE)
            /\ UNCHANGED <<tasks, checkedOut>>
       ELSE Await(t, "submit", 0, NoBody)
    /\ BlogsUnchanged /\ ContactsUnchanged

ExecuteSubmit(t) ==
    /\ tasks[t].pc = "executing" /\ tasks[t].op = "submit"
    /\ LET result == InsertContact(req.name, req.email.chars, req.message)
           data == [id |-> result.insertId, name |-> req.name,
                    email |-> req.email.chars, message |-> req.message]
       IN \E fault \in BOOLEAN :
            IF fault
            THEN /\ CatchAndRespond(t, Response("submit", 500, Null, 0, NoBody, TRUE))
                 /\ ContactsUnchanged
            ELSE /\ ReleaseAndRespond(t, Response("submit", 201, data, 0, NoBody, FALSE))
                 /\ contacts' = result.rows
                 /\ nextContactId' = nextContactId + 1
                 /\ acked' = acked \cup {data}
                 /\ UNCHANGED req
    /\ BlogsUnchanged

(* GET /api/contacts *)

RequestListContacts(t) ==
    /\ Await(t, "list", 0, NoBody)
    /\ BlogsUnchanged /\ ContactsUnchanged

ExecuteListContacts(t) ==
    /\ tasks[t].pc = "executing" /\ tasks[t].op = "list"
    /\ \E fault \in BOOLEAN :
         IF fault
         THEN CatchAndRespond(t, Response("list", 500, Null, 0, NoBody, TRUE))
         ELSE ReleaseAndRespond(t, Response("list", 200, SelectContacts, 0,
                                            NoBody, FALSE))
    /\ BlogsUnchanged /\ ContactsUnchanged

---------------------------------------------------------------------------
(* The schema provisioners and the start of the process *)

\* The schema is the set of what exists in the store: the two tables (a
\* table stands for itself and the columns every version of it had), the two
\* columns that were added to blogs later, and the indexes of blogs.
AuthorImageColumn == "blogs.author_image"
CoverImageColumn == "blogs.cover_image"
CurrentSchema ==
    {"contacts", "blogs", AuthorImageColumn, CoverImageColumn, "blogs.indexes"}

\* The schemas a store can hold when the process starts
StartSchemas ==
    {s \in SUBSET CurrentSchema :
        s \cap {AuthorImageColumn, CoverImageColumn, "blogs.indexes"} # {}
            => "blogs" \in s}

\* CREATE TABLE IF NOT EXISTS contacts (...)
CreateContactsTable(s) == s \cup {"contacts"}

\* Mutant of CreateBlogsTable: DROP TABLE followed by a CREATE TABLE of the
\* columns of the first version
CreateBlogsTableAfterDrop(s) ==
    (s \ {AuthorImageColumn, CoverImageColumn, "blogs.indexes"}) \cup {"blogs"}

\* CREATE TABLE IF NOT EXISTS blogs (... author_image ..., cover_image ...,
\* INDEX ...): a table that exists is left as it is
CreateBlogsTable(s) ==
    IF "blogs" \in s
    THEN s
    ELSE s \cup {"blogs", AuthorImageColumn, CoverImageColumn, "blogs.indexes"}

\* SHOW COLUMNS FROM blogs LIKE '<column>'
ShowColumns(s, column) == {c \in {column} : c \in s}

\* ALTER TABLE blogs ADD COLUMN <column> ...
AddColumn(s, column) ==
    IF column \in s
    THEN [code |-> "ER_DUP_FIELDNAME", schema |-> s]
    ELSE [code |-> "OK", schema |-> s \cup {column}]

\* The two column checks of createBlogsTable, each in its own try block
AuthorImage ==
    [column |-> AuthorImageColumn, probe |-> "probeAuthor",
     alter |-> "alterAuthor", next |-> "probeCover",
     error |-> "Error checking/adding author_image column:"]
CoverImage ==
    [column |-> CoverImageColumn, probe |-> "probeCover",
     alter |-> "alterCover", next |-> "done",
     error |-> "Error checking/adding cover_image column:"]
ColumnChecks == {AuthorImage, CoverImage}

\* The module has been loaded; its statements are not followed
NotLoading == [file |-> "none", pc |-> 0, scope |-> {}, error |-> ""]

\* History of the provisioning runs: the number of process starts, the schema
\* the first process found, the schema the running process found, the schema
\* the first process left and whether a statement of it failed, and the
\* errors of the running process
NoHistory == [runs |-> 0, start |-> {}, before |-> {}, first |-> {},
              firstFailed |-> FALSE, failed |-> {}]

\* Both provisioners have run to their end on a store without faults
Provisioned(cap) ==
    /\ leakCap = cap
    /\ schema = CurrentSchema
    /\ prov = [p \in Provisioners |-> "done"]
    /\ process = "listening"
    /\ log = {}
    /\ hist = NoHistory
    /\ load = NotLoading

HandlersUnchanged ==
    UNCHANGED <<blogs, nextId, contacts, nextContactId, tasks, req,
                freedSlugs, deletedIds, acked, leakCap, load>>

\* Mutant of Caught: a catch block that throws the error again
Rethrown(error) == [log |-> log, process |-> "aborted"]

\* A catch block of the provisioners: console.error(<error>, ...)
Caught(error) == [log |-> log \cup {error}, process |-> process]

\* A statement of a provisioner failed and a catch block ran
Catch(error) ==
    /\ log' = Caught(error).log
    /\ process' = Caught(error).process
    /\ hist' = [hist EXCEPT !.failed = @ \cup {error}]

\* The rest of the module after the pool is created: the provisioners are
\* called and not awaited, each runs up to its `await pool.getConnection()`,
\* and app.listen() follows
ModuleLoad ==
    /\ process = "loading"
    /\ process' = "listening"
    /\ prov' = [p \in Provisioners |-> "waiting"]
    /\ hist' = [hist EXCEPT !.runs = @ + 1, !.before = schema,
                            !.start = IF hist.runs = 0 THEN schema ELSE @]
    /\ response' = NoResponse
    /\ UNCHANGED <<schema, log, checkedOut>>
    /\ HandlersUnchanged

\* pool.getConnection() of a provisioner resolves
ProvGetConnection(p) ==
    /\ process = "listening"
    /\ prov[p] = "waiting"
    /\ checkedOut < connectionLimit
    /\ checkedOut' = checkedOut + 1
    /\ prov' = [prov EXCEPT ![p] = "create"]
    /\ response' = NoResponse
    /\ UNCHANGED <<schema, process, log, hist>>
    /\ HandlersUnchanged

\* createContactsTable: the CREATE TABLE statement, then release();
\* the catch block logs and does not release
createContactsTable ==
    /\ process = "listening"
    /\ prov["contacts"] = "create"
    /\ \E fault \in BOOLEAN :
         IF fault
         THEN /\ Catch("Error creating contacts table:")
              /\ UNCHANGED <<schema, checkedOut>>
         ELSE /\ schema' = CreateContactsTable(schema)
              /\ checkedOut' = checkedOut - 1
              /\ UNCHANGED <<process, log, hist>>
    /\ prov' = [prov EXCEPT !["contacts"] = "done"]
    /\ response' = NoResponse
    /\ HandlersUnchanged

\* createBlogsTable: the CREATE TABLE statement; the outer catch block logs
\* and does not release
createBlogsTable ==
    /\ process = "listening"
    /\ prov["blogs"] = "create"
    /\ \E fault \in BOOLEAN :
         IF fault
         THEN /\ Catch("Error creating blogs table:")
              /\ prov' = [prov EXCEPT !["blogs"] = "done"]
              /\ UNCHANGED schema
         ELSE /\ schema' = CreateBlogsTable(schema)
              /\ prov' = [prov EXCEPT !["blogs"] = AuthorImage.probe]
              /\ UNCHANGED <<process, log, hist>>
    /\ response' = NoResponse
    /\ UNCHANGED checkedOut
    /\ HandlersUnchanged

\* What follows a column check: the next check, or after the last one
\* connection.release() and the end of createBlogsTable
AfterColumn(k) ==
    /\ prov' = [prov EXCEPT !["blogs"] = k.next]
    /\ checkedOut' = IF k.next = "done" THEN checkedOut - 1 ELSE checkedOut
    /\ response' = NoResponse
    /\ HandlersUnchanged

\* createBlogsTable: SHOW COLUMNS of a column check
ProbeColumn(k) ==
    /\ process = "listening"
    /\ prov["blogs"] = k.probe
    /\ \E fault \in BOOLEAN :
         IF fault
         THEN /\ Catch(k.error)
              /\ AfterColumn(k)
         ELSE /\ UNCHANGED <<process, log, hist>>
              /\ IF ShowColumns(schema, k.column) = {}
                 THEN /\ prov' = [prov EXCEPT !["blogs"] = k.alter]
                      /\ response' = NoResponse
                      /\ UNCHANGED checkedOut
                      /\ HandlersUnchanged
                 ELSE AfterColumn(k)
    /\ UNCHANGED schema

\* createBlogsTable: ALTER TABLE ... ADD COLUMN of a column check
AlterColumn(k) ==
    /\ process = "listening"
    /\ prov["blogs"] = k.alter
    /\ LET result == AddColumn(schema, k.column)
       IN \E fault \in BOOLEAN :
            IF fault \/ result.code # "OK"
            THEN /\ Catch(k.error)
                 /\ UNCHANGED schema
            ELSE /\ schema' = result.schema
                 /\ UNCHANGED <<process, log, hist>>
    /\ AfterColumn(k)

\* The process ends after its provisioners have, and is started again: a new
\* pool, no request in flight, the store as the last process left it
Restart ==
    /\ process = "listening"
    /\ \A p \in Provisioners : prov[p] = "done"
    /\ hist.runs < MaxRuns
    /\ process' = "loading"
    /\ prov' = [p \in Provisioners |-> "notCalled"]
    /\ checkedOut' = 0
    /\ tasks' = [t \in TaskIds |-> IdleTask]
    /\ log' = {}
    /\ response' = NoResponse
    /\ hist' = IF hist.runs = 1
               THEN [hist EXCEPT !.first = schema,
                                 !.firstFailed = hist.failed # {},
                                 !.failed = {}]
               ELSE [hist EXCEPT !.failed = {}]
    /\ UNCHANGED <<schema, blogs, nextId, contacts, nextContactId, req,
                   freedSlugs, deletedIds, acked, leakCap, load>>

\* A statement on a table that does not exist fails (ER_NO_SUCH_TABLE), and
\* the catch block of the handler answers 500
NoSuchTable(table) == table \notin schema

\* A row that a table may hold when the process starts
OldContact == [id |-> 1, name |-> "n", email |-> <<"a", "@", "a", ".", "a">>,
               message |-> "m"]
OldBlog == [id |-> 1, slug |-> "s1", title |-> "t",
            tags |-> JSONstringify(<<>>), status |-> "published"]

\* The process starts on a store of any schema
InitStartup ==
    /\ schema \in StartSchemas
    /\ blogs = IF "blogs" \in schema THEN {OldBlog} ELSE {}
    /\ nextId = IF "blogs" \in schema THEN 2 ELSE 1
    /\ contacts = IF "contacts" \in schema THEN {OldContact} ELSE {}
    /\ nextContactId = IF "contacts" \in schema THEN 2 ELSE 1
    /\ tasks = [t \in TaskIds |-> IdleTask]
    /\ checkedOut = 0
    /\ response = NoResponse
    /\ req = NoContactBody
    /\ freedSlugs = {}
    /\ deletedIds = {}
    /\ acked = {}
    /\ leakCap = MaxLeaks + Cardinality(Provisioners)
    /\ prov = [p \in Provisioners |-> "notCalled"]
    /\ process = "loading"
    /\ log = {}
    /\ hist = NoHistory
    /\ load = NotLoading

\* A step of a handler of the process that listens
Accepted(A) == process = "listening" /\ A /\ UNCHANGED startVars

\* The handlers serve requests as soon as the process listens
NextStartup ==
    \/ ModuleLoad
    \/ \E p \in Provisioners : ProvGetConnection(p)
    \/ createContactsTable
    \/ createBlogsTable
    \/ \E k \in ColumnChecks : ProbeColumn(k)
    \/ \E k \in ColumnChecks : AlterColumn(k)
    \/ Restart
    \/ Accepted(RequestListContacts("t1"))
    \/ Accepted(getConnection("t1"))
    \/ Accepted(/\ ExecuteListContacts("t1")
                /\ NoSuchTable("contacts") => response'.status = 500)

SpecStartup == InitStartup /\ [][NextStartup]_vars

---------------------------------------------------------------------------
(* The contact+blog server, listening *)

Init ==
    /\ blogs = {}
    /\ nextId = 1
    /\ contacts = {}
    /\ nextContactId = 1
    /\ tasks = [t \in TaskIds |-> IdleTask]
    /\ checkedOut = 0
    /\ response = NoResponse
    /\ req = NoContactBody
    /\ freedSlugs = {}
    /\ deletedIds = {}
    /\ acked = {}
    /\ Provisioned(MaxLeaks)

\* A step of a handler: the schema and the process stay as they are
Served(A) == A /\ UNCHANGED startVars

Next ==
    \E t \in TaskIds :
        \/ Served(getConnection(t))
        \/ Served(RequestListPublished(t))
        \/ Served(ExecuteListPublished(t))
        \/ \E slug \in Slugs : Served(RequestGetBySlug(t, slug))
        \/ Served(ExecuteGetBySlug(t))
        \/ Served(RequestListAll(t))
        \/ Served(ExecuteListAll(t))
        \/ \E body \in BlogBodies : Served(RequestCreate(t, body))
        \/ Served(ExecuteCreate(t))
        \/ \E id \in Ids, body \in BlogBodies : Served(RequestUpdate(t, id, body))
        \/ Served(ExecuteUpdate(t))
        \/ \E id \in Ids : Served(RequestDelete(t, id))
        \/ Served(ExecuteDelete(t))

Spec == Init /\ [][Next]_vars

(* The contact endpoints, for every contact form body a client can send *)

InitContact ==
    /\ blogs = {}
    /\ nextId = 1
    /\ contacts = {}
    /\ nextContactId = 1
    /\ tasks = [t \in TaskIds |-> IdleTask]
    /\ checkedOut = 0
    /\ response = NoResponse
    /\ req \in ContactBodies
    /\ freedSlugs = {}
    /\ deletedIds = {}
    /\ acked = {}
    /\ Provisioned(MaxLeaks)

NextContact ==
    \E t \in TaskIds :
        \/ Served(getConnection(t))
        \/ Served(RequestSubmit(t))
        \/ Served(ExecuteSubmit(t))
        \/ Served(RequestListContacts(t))
        \/ Served(ExecuteListContacts(t))

SpecContact == InitContact /\ [][NextContact]_vars

(* The blog endpoints of one client, for every tags value a body can carry *)

TagNames == {"a", "b"}
TagSeqs == UNION {[1 .. n -> TagNames] : n \in 0 .. MaxTags}
AllTagInputs == {NoTags} \cup {Tags(seq) : seq \in TagSeqs}
TagBodies ==
    [slug : Slugs, title : Titles, tags : AllTagInputs, status : StatusInputs]

\* History: the fields that the last successful create or update gave to the
\* row of each id, which of the two it was, and the ids whose row has been
\* written with status published
NothingGiven ==
    [given |-> [id \in Ids |-> NoBody], by |-> [id \in Ids |-> "none"],
     published |-> {}]
Wrote(h, op, id, body) ==
    [given |-> [h.given EXCEPT ![id] = body],
     by |-> [h.by EXCEPT ![id] = op],
     published |-> IF body.status = "published"
                   THEN h.published \cup {id} ELSE h.published]
Given(h, r) ==
    IF r.op = "create" /\ r.status = 201 THEN Wrote(h, "create", r.data.id, r.body)
    ELSE IF r.op = "update" /\ r.status = 200 THEN Wrote(h, "update", r.id, r.body)
    ELSE h

InitTags ==
    /\ blogs = {}
    /\ nextId = 1
    /\ contacts = {}
    /\ nextContactId = 1
    /\ tasks = [t \in TaskIds |-> IdleTask]
    /\ checkedOut = 0
    /\ response = NoResponse
    /\ req = NoContactBody
    /\ freedSlugs = {}
    /\ deletedIds = {}
    /\ acked = {}
    /\ leakCap = MaxLeaks
    /\ schema = CurrentSchema
    /\ prov = [p \in Provisioners |-> "done"]
    /\ process = "listening"
    /\ log = {}
    /\ hist = NothingGiven
    /\ load = NotLoading

\* A step of a handler, and the history of what it wrote
Recorded(A) ==
    /\ A
    /\ hist' = Given(hist, response')
    /\ UNCHANGED <<leakCap, schema, prov, process, log, load>>

NextTags ==
    \/ Recorded(getConnection("t1"))
    \/ \E body \in TagBodies : Recorded(RequestCreate("t1", body))
    \/ Recorded(ExecuteCreate("t1"))
    \/ \E id \in Ids, body \in TagBodies : Recorded(RequestUpdate("t1", id, body))
    \/ Recorded(ExecuteUpdate("t1"))
    \/ \E slug \in Slugs : Recorded(RequestGetBySlug("t1", slug))
    \/ Recorded(ExecuteGetBySlug("t1"))
    \/ Recorded(RequestListPublished("t1"))
    \/ Recorded(ExecuteListPublished("t1"))
    \/ Recorded(RequestListAll("t1"))
    \/ Recorded(ExecuteListAll("t1"))

SpecTags == InitTags /\ [][NextTags]_vars

---------------------------------------------------------------------------
(* Properties of the blog repository *)

Idle == \A t \in TaskIds : tasks[t].pc = "idle"
RowsWithId(rows, id) == {r \in rows : r.id = id}
RowsWithSlug(rows, slug) == {r \in rows : r.slug = slug}

\* C1: every operation releases its connection on every exit path, the
\* path of a failed statement included: whenever no operation is in flight,
\* no connection is checked out of the pool.
C1_AllReleasedWhenIdle == Idle => checkedOut = 0

\* C2: no two rows of blogs ever hold the same slug, whatever their status
\* and however create, update and delete requests interleave; of two
\* concurrent creates of one fresh slug at most one inserts a row.
C2_SlugUnique ==
    \A r1 \in blogs, r2 \in blogs : r1.slug = r2.slug => r1 = r2

\* Two creates of one slug are in flight together and one of them has just
\* inserted its row.
C2_Witness ==
    /\ response.op = "create" /\ response.status = 201
    /\ \E t \in TaskIds :
         /\ tasks[t].pc = "executing" /\ tasks[t].op = "create"
         /\ tasks[t].body.slug = response.body.slug

\* What a create step may do
C3_Step ==
    LET r == response'
        slug == r.body.slug
    IN (r.op = "create" /\ ~r.fault /\ ~MissingRequired(r.body)) =>
         IF RowsWithSlug(blogs, slug) = {}
         THEN /\ r.status = 201
              /\ r.data.slug = slug
              /\ RowsWithId(blogs, r.data.id) = {}
              /\ \E row \in blogs' :
                   /\ row.id = r.data.id /\ row.slug = slug
                   /\ blogs' = blogs \cup {row}
         ELSE /\ r.status = 400
              /\ blogs' = blogs
\* C3: a create of valid fields whose slug is not in the table succeeds (201)
\* and returns the generated id and the slug; a create of a slug that is in
\* the table fails with Conflict (400), inserts nothing and leaves the
\* table, the original row included, unchanged.  (Requests whose statement
\* the store fails are set aside.)
C3_CreateOrConflict == [][C3_Step]_vars

\* A second create of a slug has just been refused.
C3_Witness ==
    /\ response.op = "create" /\ response.status = 400
    /\ ~MissingRequired(response.body)
    /\ RowsWithSlug(blogs, response.body.slug) # {}

\* C4: listPublished returns exactly the rows whose status is published,
\* never a draft; listAll returns every row of the table.
C4_Visibility ==
    /\ (response.op = "listPublished" /\ ~response.fault) =>
         /\ response.status = 200
         /\ {d.id : d \in response.data} =
              {r.id : r \in {x \in blogs : x.status = "published"}}
         /\ \A d \in response.data : \A r \in RowsWithId(blogs, d.id) :
              r.status # "draft" /\ r.slug = d.slug
    /\ (response.op = "listAll" /\ ~response.fault) =>
         /\ response.status = 200
         /\ {[id |-> d.id, slug |-> d.slug, status |-> d.status] :
                d \in response.data} =
              {[id |-> r.id, slug |-> r.slug, status |-> r.status] : r \in blogs}

\* listPublished has answered while the table holds a draft and a published row.
C4_Witness ==
    /\ response.op = "listPublished" /\ response.status = 200
    /\ \E r \in blogs : r.status = "draft"
    /\ \E r \in blogs : r.status = "published"

\* C5: getBySlug answers NotFound (404) whenever no published row holds the
\* slug, also when a draft row holds it; when a published row holds it, it
\* returns that row in full.
C5_GetBySlug ==
    (response.op = "getBySlug" /\ ~response.fault) =>
      LET rows == {r \in RowsWithSlug(blogs, response.body.slug) :
                     r.status = "published"}
      IN IF rows = {}
         THEN response.status = 404
         ELSE /\ response.status = 200
              /\ \E r \in rows :
                   /\ response.data.id = r.id
                   /\ response.data.slug = r.slug
                   /\ response.data.title = r.title
                   /\ response.data.status = r.status
                   /\ JSONstringify(response.data.tags) = r.tags

\* getBySlug has answered 404 for a slug that a draft row holds.
C5_Witness ==
    /\ response.op = "getBySlug" /\ response.status = 404
    /\ \E r \in RowsWithSlug(blogs, response.body.slug) : r.status = "draft"

\* What an update step of an unknown id may do
C6_Step ==
    LET r == response'
    IN (r.op = "update" /\ ~r.fault /\ RowsWithId(blogs, r.id) = {}) =>
         r.status = 404 /\ blogs' = blogs
\* C6: for every id that is no row's id, and whatever fields the request
\* carries or omits, update answers NotFound (404) and leaves the table
\* unchanged.
C6_UpdateUnknownIdNotFound == [][C6_Step]_vars

\* What an update step of an existing id may do
C7_Step ==
    LET r == response'
    IN (r.op = "update" /\ ~r.fault /\ RowsWithId(blogs, r.id) # {}
          /\ r.body.slug # Absent) =>
         /\ (\E o \in blogs : o.id # r.id /\ o.slug = r.body.slug) =>
              r.status = 400 /\ blogs' = blogs
         /\ (\E o \in blogs : o.id = r.id /\ o.slug = r.body.slug) =>
              r.status = 200
\* C7: an update of an existing id to the slug of a different row fails with
\* Conflict (400) and changes neither row; an update of an existing id that
\* keeps its own slug does not fail with Conflict.
C7_UpdateSlugConflict == [][C7_Step]_vars

\* An update to the slug of another row has just been refused.
C7_Witness ==
    /\ response.op = "update" /\ response.status = 400
    /\ RowsWithId(blogs, response.id) # {}
    /\ \E o \in blogs : o.id # response.id /\ o.slug = response.body.slug

\* What delete, listAll and getBySlug steps may do after a delete
C8_DeleteStep ==
    LET r == response'
    IN (r.op = "delete" /\ ~r.fault) =>
         IF RowsWithId(blogs, r.id) = {}
         THEN r.status = 404 /\ blogs' = blogs
         ELSE r.status = 200 /\ blogs' = blogs \ RowsWithId(blogs, r.id)
C8_ListAllStep ==
    LET r == response'
    IN (r.op = "listAll" /\ r.status = 200) =>
         \A d \in r.data : d.id \notin deletedIds'
C8_Original_Step ==
    LET r == response'
    IN /\ C8_DeleteStep
       /\ C8_ListAllStep
       /\ (r.op = "getBySlug" /\ ~r.fault /\ r.late
             /\ r.body.slug \in freedSlugs') =>
            r.status = 404
\* C8, as stated: delete of an id with no row answers NotFound (404) and
\* changes nothing; delete of an existing id removes exactly that row, after
\* which every getBySlug of its slug (requested after the delete) answers
\* NotFound and every listAll omits the row, until a create uses the slug
\* again.
C8_Original == [][C8_Original_Step]_vars

\* The same, the slug not given to a row again
C8_Amended_Step ==
    LET r == response'
    IN /\ C8_DeleteStep
       /\ C8_ListAllStep
       /\ (r.op = "getBySlug" /\ ~r.fault /\ r.late
             /\ r.body.slug \in freedSlugs'
             /\ RowsWithSlug(blogs', r.body.slug) = {}) =>
            r.status = 404
\* C8, as amended: delete of an id with no row answers NotFound (404) and
\* changes nothing; delete of an existing id removes exactly that row, after
\* which every getBySlug of its slug (requested after the delete) answers
\* NotFound and every listAll omits the row, until a create or an update
\* gives the slug to a row again.
C8_DeleteRemoves == [][C8_Amended_Step]_vars

\* getBySlug has answered 404 for the slug of a deleted row.
C8_Witness ==
    /\ response.op = "getBySlug" /\ response.status = 404 /\ response.late
    /\ response.body.slug \in freedSlugs
    /\ deletedIds # {}

---------------------------------------------------------------------------
(* Properties of the contact repository *)

Count(chars, c) == Cardinality({i \in 1 .. Len(chars) : chars[i] = c})

\* The shape local@domain.tld: one "@", no whitespace, a "." after the "@"
LocalAtDomainTld(chars) ==
    /\ Count(chars, "@") = 1
    /\ Count(chars, " ") = 0
    /\ \E i \in 1 .. Len(chars), j \in 1 .. Len(chars) :
         i < j /\ chars[i] = "@" /\ chars[j] = "."

\* A syntactically valid email: non-empty local part, "@", non-empty domain,
\* ".", non-empty last part, none of them holding whitespace or "@"
WellFormedEmail(chars) ==
    \E i \in 2 .. Len(chars), j \in 4 .. Len(chars) - 1 :
       /\ i + 1 < j
       /\ chars[i] = "@" /\ chars[j] = "."
       /\ \A k \in (1 .. Len(chars)) \ {i} : NotSpaceNorAt(chars[k])

MissingOrEmpty(x) == x = Absent \/ x = ""

\* What a step may do when the body is to be refused
C9_Rejected(body) ==
    \/ MissingOrEmpty(body.name) \/ MissingOrEmpty(body.message)
    \/ ~body.email.present \/ body.email.chars = <<>>
    \/ ~LocalAtDomainTld(body.email.chars)
C9_Step ==
    C9_Rejected(req) =>
      /\ contacts' = contacts /\ nextContactId' = nextContactId
      /\ response'.op = "submit" =>
           response'.status = 400 /\ tasks' = tasks /\ checkedOut' = checkedOut
\* C9: submit answers ValidationError (400) and persists no row whenever
\* name, email or message is missing or empty, or the email is not of the
\* shape local@domain.tld; the contacts table is unchanged by the request.
C9_InvalidSubmitRejected == [][C9_Step]_vars

\* A body with name and message whose email has no "." after its one "@"
\* has just been refused.
C9_Witness ==
    /\ response.op = "submit" /\ response.status = 400
    /\ req.name = "n" /\ req.message = "m"
    /\ Count(req.email.chars, "@") = 1 /\ Count(req.email.chars, " ") = 0
    /\ Count(req.email.chars, ".") = 0 /\ Len(req.email.chars) = 3

\* The bodies C10 speaks of
C10_Valid(body) ==
    /\ ~MissingOrEmpty(body.name) /\ ~MissingOrEmpty(body.message)
    /\ body.email.present /\ WellFormedEmail(body.email.chars)
\* C10: a submit of non-empty name and message and a syntactically valid
\* email succeeds (201) with a generated id, and every later list holds a
\* row with that id and those values; the same email submitted again is
\* stored as a further row.  (Requests whose statement the store fails are
\* set aside.)
C10_SubmitThenListed ==
    /\ (response.op = "submit" /\ ~response.fault /\ C10_Valid(req)) =>
         /\ response.status = 201
         /\ response.data.name = req.name
         /\ response.data.email = req.email.chars
         /\ response.data.message = req.message
         /\ response.data.id \in 1 .. (nextContactId - 1)
         /\ response.data \in acked
    /\ (response.op = "list" /\ ~response.fault) =>
         /\ response.status = 200
         /\ \A a \in acked : \E d \in response.data :
              /\ d.id = a.id /\ d.name = a.name
              /\ d.email = a.email /\ d.message = a.message
    /\ Cardinality(acked) = nextContactId - 1

\* A list has answered after two submits of the same email.
C10_Witness ==
    /\ response.op = "list" /\ response.status = 200
    /\ Cardinality(acked) = 2
    /\ Cardinality(response.data) = 2
    /\ \A d \in response.data : d.email = req.email.chars

---------------------------------------------------------------------------
(* Properties of the start of the process *)

ProvisioningDone == \A p \in Provisioners : prov[p] = "done"

\* C11: the schema provisioners have finished before any statement of a
\* request handler is issued, and no request is answered while provisioning
\* is still in progress
C11_ProvisionedBeforeRequests ==
    (\/ \E t \in TaskIds : tasks[t].pc = "executing"
     \/ response.op # "none")
        => ProvisioningDone

\* C12: a provisioning run never drops a table, a column or an index and
\* touches no row; on a schema that is already current it changes nothing;
\* and once a first run has ended without a failed statement, a second run
\* leaves the schema exactly as the first run left it
C12_Step ==
    /\ schema \subseteq schema'
    /\ prov' # prov => UNCHANGED <<blogs, contacts>>
    /\ hist'.runs >= 1 /\ hist'.before = CurrentSchema => schema' = CurrentSchema
    /\ hist'.runs >= 2 /\ ~hist'.firstFailed => schema' = hist'.first
C12_ProvisionerIdempotent == [][C12_Step]_vars

\* A second run has ended without a failed statement on the schema that the
\* first run had to change.
C12_Witness ==
    /\ hist.runs = 2 /\ ProvisioningDone
    /\ ~hist.firstFailed /\ hist.failed = {}
    /\ hist.start # hist.first
    /\ AuthorImageColumn \notin hist.start /\ "blogs" \in hist.start
    /\ blogs # {}
    /\ schema = hist.first

---------------------------------------------------------------------------
(* Properties of tags and status across a write and a later read *)

\* The rows that a successful read carries
ReadRows(r) == IF r.op = "getBySlug" THEN {r.data} ELSE r.data
IsRead(r) ==
    r.op \in {"getBySlug", "listPublished", "listAll"} /\ r.status = 200

\* C13: every row that getBySlug, listPublished or listAll returns carries as
\* tags the sequence that the last create or update of the row was given,
\* same elements in the same order, whether the driver hands the column
\* back as text or decoded; tags that were absent read back as the empty
\* sequence
C13_TagsRoundTrip ==
    IsRead(response) =>
        \A d \in ReadRows(response) :
            LET g == hist.given[d.id].tags
            IN d.tags = IF g.present THEN g.val ELSE <<>>

\* A listAll has returned a row written with tags <<b, a>> and a row written
\* without tags.
C13_Witness ==
    /\ response.op = "listAll" /\ response.status = 200
    /\ \E d \in response.data :
         d.tags = <<"b", "a">> /\ hist.given[d.id].tags = Tags(<<"b", "a">>)
    /\ \E d \in response.data :
         d.tags = <<>> /\ ~hist.given[d.id].tags.present

---------------------------------------------------------------------------
(* Image intake: multer, POST /api/upload-blog-image, the health check,    *)
(* the default route and the error handling middleware                     *)

\* A file name and a content type are sequences of pieces; no piece but the
\* allowed words themselves holds an allowed word, and no word straddles two
\* pieces.
NamePieces == {"p", ".", "png", "PNG", "x", "txt"}
FileNames == UNION {[1 .. n -> NamePieces] : n \in 1 .. MaxNameLen}
MimeTypes ==
    {<<"image", "/", "png">>, <<"image", "/", "jpeg">>,
     <<"image", "/", "png", "x">>, <<"text", "/", "plain">>}

\* limits: { fileSize: 5 * 1024 * 1024 }
fileSize == 5 * 1024 * 1024
Sizes == {1, fileSize, fileSize + 1}

\* The file part of the multipart request, if it carries one
NoFile == [present |-> FALSE, originalname |-> <<>>, mimetype |-> <<>>,
           size |-> 0]
File(name, mime, size) ==
    [present |-> TRUE, originalname |-> name, mimetype |-> mime, size |-> size]
Uploads ==
    {NoFile} \cup
    {File(n, m, z) : n \in FileNames, m \in MimeTypes, z \in Sizes}

\* path.extname: from the last dot to the end; empty when there is no dot
\* or the only dot is the first character
LastDot(name) ==
    LET dots == {i \in 1 .. Len(name) : name[i] = "."}
    IN IF dots = {} THEN 0 ELSE CHOOSE i \in dots : \A j \in dots : j <= i
extname(name) ==
    IF LastDot(name) <= 1 \/ name = <<".", ".">>
    THEN <<>>
    ELSE SubSeq(name, LastDot(name), Len(name))

\* String.prototype.toLowerCase
toLowerCase(str) == [i \in 1 .. Len(str) |-> IF str[i] = "PNG" THEN "png" ELSE str[i]]

\* /jpeg|jpg|png|gif|webp/.test(str): the words match anywhere in the string
allowedTypesTest(str) ==
    \E i \in 1 .. Len(str) : str[i] \in {"jpeg", "jpg", "png", "gif", "webp"}

\* fileFilter of multer: cb(null, true), or cb(new Error(...))
fileFilter(file) ==
    LET ext == allowedTypesTest(toLowerCase(extname(file.originalname)))
        mimetype == allowedTypesTest(file.mimetype)
    IN mimetype /\ ext

\* A response with its JSON body; the keys of the body are its DOMAIN
JsonResponse(op, status, json) == [op |-> op, status |-> status, json |-> json]

UploadUnchanged ==
    UNCHANGED <<blogs, nextId, contacts, nextContactId, checkedOut, req,
                freedSlugs, deletedIds, acked, leakCap, schema, prov,
                process, log, load>>

\* upload.single('image'): the file filter, then memory storage up to the
\* size limit; an error goes to next(err)
uploadSingle(t) ==
    /\ tasks[t].pc = "idle"
    /\ IF ~req.present
       THEN /\ tasks' = [tasks EXCEPT ![t] = Task("handler", "upload", 0, NoBody)]
            /\ UNCHANGED hist
       ELSE IF ~fileFilter(req) \/ req.size > fileSize
       THEN /\ tasks' = [tasks EXCEPT ![t] = Task("error", "upload", 0, NoBody)]
            /\ UNCHANGED hist
       ELSE /\ tasks' = [tasks EXCEPT ![t] = Task("handler", "upload", 0, NoBody)]
            /\ hist' = [hist EXCEPT !.stored = @ \cup {req}]
    /\ response' = NoResponse
    /\ UploadUnchanged

\* app.post('/api/upload-blog-image'): req.file is what multer stored
uploadBlogImage(t) ==
    /\ tasks[t].pc = "handler" /\ tasks[t].op = "upload"
    /\ response' =
         IF ~req.present
         THEN JsonResponse("upload", 400,
                  [success |-> FALSE, message |-> "No file uploaded"])
         ELSE JsonResponse("upload", 200,
                  [success |-> TRUE, message |-> "File uploaded successfully",
                   file |-> [originalname |-> req.originalname,
                             mimetype |-> req.mimetype,
                             size |-> req.size,
                             url |-> <<"data:">> \o req.mimetype
                                         \o <<";base64,">>]])
    /\ tasks' = [tasks EXCEPT ![t] = IdleTask]
    /\ UNCHANGED hist
    /\ UploadUnchanged

\* app.use((err, req, res, next) => ...): the error handling middleware
errorMiddleware(t) ==
    /\ tasks[t].pc = "error"
    /\ response' = JsonResponse(tasks[t].op, 500,
                       [success |-> FALSE, message |-> "Something went wrong!"])
    /\ tasks' = [tasks EXCEPT ![t] = IdleTask]
    /\ UNCHANGED hist
    /\ UploadUnchanged

\* app.get('/api/health')
health(t) ==
    /\ tasks[t].pc = "idle"
    /\ response' = JsonResponse("health", 200,
                       [success |-> TRUE, message |-> "Server is running",
                        timestamp |-> "new Date()"])
    /\ UNCHANGED <<tasks, hist>>
    /\ UploadUnchanged

\* app.get('/')
defaultRoute(t) ==
    /\ tasks[t].pc = "idle"
    /\ response' = JsonResponse("default", 200,
                       [success |-> TRUE, message |-> "API Server is running",
                        endpoints |-> {"contact", "blog", "GET /api/health"}])
    /\ UNCHANGED <<tasks, hist>>
    /\ UploadUnchanged

\* The server listens; the client sends any multipart request
InitUpload ==
    /\ blogs = {}
    /\ nextId = 1
    /\ contacts = {}
    /\ nextContactId = 1
    /\ tasks = [t \in TaskIds |-> IdleTask]
    /\ checkedOut = 0
    /\ response = NoResponse
    /\ req \in Uploads
    /\ freedSlugs = {}
    /\ deletedIds = {}
    /\ acked = {}
    /\ leakCap = MaxLeaks
    /\ schema = CurrentSchema
    /\ prov = [p \in Provisioners |-> "done"]
    /\ process = "listening"
    /\ log = {}
    /\ hist = [stored |-> {}]
    /\ load = NotLoading

NextUpload ==
    \/ uploadSingle("t1")
    \/ uploadBlogImage("t1")
    \/ errorMiddleware("t1")
    \/ health("t1")
    \/ defaultRoute("t1")

SpecUpload == InitUpload /\ [][NextUpload]_vars

---------------------------------------------------------------------------
(* Properties of the image intake and of the envelope *)

ImageTypes == {"jpeg", "jpg", "png", "gif", "webp"}

\* The name ends in a dot and one of the image types, in either case
ExtensionIndicates(name) ==
    /\ Len(name) >= 3
    /\ name[Len(name) - 1] = "."
    /\ name[Len(name)] \in ImageTypes \cup {"PNG"}

\* The content type is image/<one of the image types>
ContentTypeIndicates(mime) ==
    \E w \in ImageTypes : mime = <<"image", "/", w>>

AllowedType(file) ==
    ExtensionIndicates(file.originalname) /\ ContentTypeIndicates(file.mimetype)

\* C14: an upload whose file type is not allowed is answered with HTTP 400
\* and success false, and nothing of it has been stored
C14_DisallowedTypeAnswered400 ==
    response.op = "upload" /\ req.present /\ ~AllowedType(req)
        => /\ response.status = 400
           /\ response.json.success = FALSE
           /\ req \notin hist.stored

\* C15: an upload within the size limit passes the file filter if and only
\* if both its extension and its content type indicate an image type; a
\* type name that only contains such a word is rejected
C15_AcceptsIffBothIndicate ==
    tasks["t1"].op = "upload" /\ req.present /\ req.size <= fileSize
        => (tasks["t1"].pc = "handler" <=> AllowedType(req))

\* C16: the body of every response has no top-level key but success,
\* message and data, and a successful upload carries originalname, mimetype,
\* size and url under data
C16_EnvelopeKeys ==
    response.op \in {"upload", "health", "default"}
        => /\ DOMAIN response.json \subseteq {"success", "message", "data"}
           /\ response.op = "upload" /\ response.status = 200
                => /\ "data" \in DOMAIN response.json
                   /\ DOMAIN response.json.data =
                          {"originalname", "mimetype", "size", "url"}

---------------------------------------------------------------------------
(* Properties of a start whose provisioning fails *)

\* C17: when a statement of a provisioner fails, the error is logged and the
\* process is not aborted but listens, and every request it then serves is
\* answered with a success or with a store error (HTTP 500), the latter
\* whenever the table it needs was not created
C17_ProvisioningFailureSurvived ==
    /\ process # "aborted"
    /\ hist.failed \subseteq log
    /\ hist.failed # {} => process = "listening"
    /\ response.op = "list" =>
          /\ response.status \in {200, 500}
          /\ "contacts" \notin schema => response.status = 500
          /\ response.status = 200 => response.data = contacts

\* CREATE TABLE contacts has failed, and a GET /api/contacts served after it
\* was answered 500.
C17_Witness ==
    /\ "Error creating contacts table:" \in hist.failed
    /\ "contacts" \notin schema
    /\ process = "listening"
    /\ response.op = "list" /\ response.status = 500

\* The tags and the status that a write of the given fields stores
StoredStatus(g) == IF g.status = Absent THEN "draft" ELSE g.status
StoredTags(g) == IF g.tags.present THEN g.tags.val ELSE <<>>
LastWrite(id, op) == hist.by[id] = op

\* C18: a row last written by a create that omitted status is stored as
\* draft, one whose create omitted tags holds the empty sequence; a row
\* created without status is in every listAll answer, in no listPublished
\* answer and not found by getBySlug, and once an update has set it to
\* published it is in the listPublished answers
C18_CreateDefaults ==
    /\ \A r \in blogs :
         LastWrite(r.id, "create") =>
             LET g == hist.given[r.id]
             IN /\ g.status = Absent => r.status = "draft"
                /\ ~g.tags.present => r.tags = <<"[", "]">>
    /\ \A id \in Ids :
         LastWrite(id, "create") /\ hist.given[id].status = Absent =>
             /\ response.op = "listAll" /\ response.status = 200
                  => \E d \in response.data : d.id = id /\ d.status = "draft"
             /\ response.op = "listPublished" /\ response.status = 200
                  => \A d \in response.data : d.id # id
             /\ response.op = "getBySlug"
                  /\ response.body.slug = hist.given[id].slug
                  => response.status # 200
    /\ \A id \in Ids :
         LastWrite(id, "update") /\ hist.given[id].status = "published" =>
             (response.op = "listPublished" /\ response.status = 200
                  => \E d \in response.data : d.id = id)

\* A listAll has returned, as a draft without tags, a row created without
\* status and without tags.
C18_Witness ==
    /\ response.op = "listAll" /\ response.status = 200
    /\ \E d \in response.data :
         /\ LastWrite(d.id, "create")
         /\ hist.given[d.id].status = Absent
         /\ ~hist.given[d.id].tags.present
         /\ d.status = "draft" /\ d.tags = <<>>

\* C19: a row last written by an update holds exactly what that update
\* gave: its slug and title, as status the given one or draft when absent,
\* as tags the given ones or the empty sequence when absent; after an update
\* without status the row is in no listPublished answer and not found by
\* getBySlug
C19_UpdateReplaces ==
    /\ \A r \in blogs :
         LastWrite(r.id, "update") =>
             LET g == hist.given[r.id]
             IN /\ r.slug = g.slug /\ r.title = g.title
                /\ r.status = StoredStatus(g)
                /\ r.tags = JSONstringify(StoredTags(g))
    /\ \A id \in Ids :
         LastWrite(id, "update") /\ hist.given[id].status = Absent =>
             /\ response.op = "listPublished" /\ response.status = 200
                  => \A d \in response.data : d.id # id
             /\ response.op = "getBySlug"
                  /\ response.body.slug = hist.given[id].slug
                  => response.status # 200

\* A row that was published with tags has been updated without status and
\* without tags, and a listPublished after it does not return the row.
C19_Witness ==
    /\ response.op = "listPublished" /\ response.status = 200
    /\ \E r \in blogs :
         /\ LastWrite(r.id, "update")
         /\ r.id \in hist.published
         /\ hist.given[r.id].status = Absent
         /\ ~hist.given[r.id].tags.present
         /\ r.status = "draft" /\ r.tags = <<"[", "]">>
         /\ \A d \in response.data : d.id # r.id

---------------------------------------------------------------------------
(* The pool under load: PUT /api/admin/blogs/:id until the pool is empty *)

\* The bodies of the updates: all required fields, or none
LiveBodies == {[NoBody EXCEPT !.slug = "s1", !.title = "t"], NoBody}

\* The server listens; the run is followed up to the limit of the pool
InitLive ==
    /\ blogs = {}
    /\ nextId = 1
    /\ contacts = {}
    /\ nextContactId = 1
    /\ tasks = [t \in TaskIds |-> IdleTask]
    /\ checkedOut = 0
    /\ response = NoResponse
    /\ req = NoContactBody
    /\ freedSlugs = {}
    /\ deletedIds = {}
    /\ acked = {}
    /\ Provisioned(connectionLimit)

NextLive ==
    \E t \in TaskIds :
        \/ \E body \in LiveBodies : Served(RequestUpdate(t, 1, body))
        \/ Served(getConnection(t))
        \/ Served(ExecuteUpdate(t))

\* The pool hands a free connection to a waiting handler, and the store
\* answers every statement: neither step is enabled forever without being
\* taken
Fairness ==
    \A t \in TaskIds :
        /\ WF_vars(Served(getConnection(t)))
        /\ WF_vars(Served(ExecuteUpdate(t)))

SpecLive == InitLive /\ [][NextLive]_vars /\ Fairness

\* C20: under a fair store and pool every request that has reached its
\* handler is answered, whatever requests came before it, and the pool does
\* not stay at its limit forever while a request waits for a connection
C20_EveryRequestAnswered ==
    /\ \A t \in TaskIds : (tasks[t].pc # "idle") ~> (tasks[t].pc = "idle")
    /\ ~ <>[](/\ checkedOut = connectionLimit
              /\ \E t \in TaskIds : tasks[t].pc = "waiting")

---------------------------------------------------------------------------
(* The load of the module: its top-level statements in order *)

\* A top-level statement: the names it reads when it runs, the names it
\* binds, and for the call of a provisioner which one
Statement(line, kind, uses, defines, arg) ==
    [line |-> line, kind |-> kind, uses |-> uses, defines |-> defines,
     arg |-> arg]

\* src/index.js
IndexJs ==
    << Statement(1, "declare", {"require"}, {"express", "cors", "mysql"}, ""),
       Statement(6, "declare", {"express", "process"}, {"app", "PORT"}, ""),
       Statement(10, "mount", {"app", "cors"}, {}, ""),
       Statement(11, "mount", {"app", "express"}, {}, ""),
       Statement(14, "declare", {"process"}, {"dbConfig"}, ""),
       Statement(25, "createPool", {"mysql", "dbConfig"}, {"pool"}, ""),
       Statement(52, "call", {"createContactsTable"}, {}, "contacts"),
       Statement(55, "mount", {"app"}, {}, ""),
       Statement(165, "listen", {"app", "PORT"}, {}, "") >>

\* src/unnamed/part_000
Part000 ==
    << Statement(1, "declare", {"require"},
                 {"express", "mysql", "cors", "multer", "path", "fs"}, ""),
       Statement(9, "declare", {"express", "process"}, {"app", "PORT"}, ""),
       Statement(13, "declare", {"multer"}, {"storage", "upload"}, ""),
       Statement(32, "declare", {"require", "console"}, {"os", "tmpDir"}, ""),
       Statement(36, "declare", {}, {"allowedOrigins"}, ""),
       Statement(44, "mount", {"app", "cors"}, {}, ""),
       Statement(65, "mount", {"app", "cors"}, {}, ""),
       Statement(67, "mount", {"app", "express"}, {}, ""),
       Statement(68, "mount", {"app", "express", "uploadsDir"}, {}, ""),
       Statement(70, "declare", {"process"}, {"dbConfig"}, ""),
       Statement(81, "createPool", {"mysql", "dbConfig"}, {"pool"}, ""),
       Statement(185, "call", {"createContactsTable"}, {}, "contacts"),
       Statement(186, "call", {"createBlogsTable"}, {}, "blogs"),
       Statement(189, "mount", {"app", "upload"}, {}, ""),
       Statement(596, "listen", {"app", "PORT"}, {}, "") >>

Files == {"index.js", "part_000"}
Statements(file) == IF file = "index.js" THEN IndexJs ELSE Part000

\* What is bound before the first statement runs: the globals of Node, and
\* the function declarations of the file, which are hoisted
Hoisted(file) ==
    {"require", "process", "console"} \cup
    (IF file = "index.js"
     THEN {"createContactsTable"}
     ELSE {"createContactsTable", "createBlogsTable"})

Loading(file) ==
    [file |-> file, pc |-> 1, scope |-> Hoisted(file), error |-> ""]

\* The statement that runs next, if the load is under way
AtStatement(kind) ==
    /\ process = "loading"
    /\ load.pc <= Len(Statements(load.file))
    /\ Statements(load.file)[load.pc].kind = kind
Current == Statements(load.file)[load.pc]

\* A name that is read and not bound throws a ReferenceError; nothing
\* catches it at the top level and the process ends
Throws == \E name \in Current.uses : name \notin load.scope
Uncaught ==
    /\ process' = "aborted"
    /\ load' = [load EXCEPT !.error = "ReferenceError"]
    /\ response' = NoResponse
    /\ UNCHANGED <<schema, prov, log, hist, checkedOut, blogs, nextId,
                   contacts, nextContactId, tasks, req, freedSlugs,
                   deletedIds, acked, leakCap>>

\* The statement has run: its names are bound and the next one follows
Advance ==
    load' = [load EXCEPT !.pc = @ + 1, !.scope = @ \cup Current.defines]
LoadUnchanged ==
    /\ response' = NoResponse
    /\ UNCHANGED <<schema, log, hist, checkedOut, blogs, nextId, contacts,
                   nextContactId, tasks, req, freedSlugs, deletedIds, acked,
                   leakCap>>

\* const ... = ...
Declare ==
    /\ AtStatement("declare")
    /\ IF Throws THEN Uncaught
       ELSE Advance /\ LoadUnchanged /\ UNCHANGED <<process, prov>>

\* app.use(...), app.options(...), app.get(...), app.post(...), ...
Mount ==
    /\ AtStatement("mount")
    /\ IF Throws THEN Uncaught
       ELSE Advance /\ LoadUnchanged /\ UNCHANGED <<process, prov>>

\* const pool = mysql.createPool(dbConfig)
createPool ==
    /\ AtStatement("createPool")
    /\ IF Throws THEN Uncaught
       ELSE Advance /\ LoadUnchanged /\ UNCHANGED <<process, prov>>

\* createContactsTable(); createBlogsTable(): the async function runs up to
\* its `await pool.getConnection()` and the load goes on
CallProvisioner(p) ==
    /\ AtStatement("call") /\ Current.arg = p
    /\ IF Throws THEN Uncaught
       ELSE /\ Advance
            /\ prov' = [prov EXCEPT ![p] = "waiting"]
            /\ LoadUnchanged
            /\ UNCHANGED process

\* app.listen(PORT, ...)
Listen ==
    /\ AtStatement("listen")
    /\ IF Throws THEN Uncaught
       ELSE /\ Advance
            /\ process' = "listening"
            /\ LoadUnchanged
            /\ UNCHANGED prov

\* Node starts on either file, on a store of any schema
InitLoad ==
    /\ schema \in StartSchemas
    /\ blogs = IF "blogs" \in schema THEN {OldBlog} ELSE {}
    /\ nextId = IF "blogs" \in schema THEN 2 ELSE 1
    /\ contacts = IF "contacts" \in schema THEN {OldContact} ELSE {}
    /\ nextContactId = IF "contacts" \in schema THEN 2 ELSE 1
    /\ tasks = [t \in TaskIds |-> IdleTask]
    /\ checkedOut = 0
    /\ response = NoResponse
    /\ req = NoContactBody
    /\ freedSlugs = {}
    /\ deletedIds = {}
    /\ acked = {}
    /\ leakCap = MaxLeaks + Cardinality(Provisioners)
    /\ prov = [p \in Provisioners |-> "notCalled"]
    /\ process = "loading"
    /\ log = {}
    /\ hist = NoHistory
    /\ \E file \in Files : load = Loading(file)

\* The load, and after it what the listening process does: the provisioner
\* of contacts and GET /api/contacts
NextLoad ==
    \/ Declare
    \/ Mount
    \/ createPool
    \/ \E p \in Provisioners : CallProvisioner(p)
    \/ Listen
    \/ \E p \in Provisioners : ProvGetConnection(p)
    \/ createContactsTable
    \/ Accepted(RequestListContacts("t1"))
    \/ Accepted(getConnection("t1"))
    \/ Accepted(/\ ExecuteListContacts("t1")
                /\ NoSuchTable("contacts") => response'.status = 500)

SpecLoad == InitLoad /\ [][NextLoad]_vars

\* C21: the load of the contact+blog server runs to completion: no statement
\* reads a name that is not bound yet, so the load never ends in an uncaught
\* error, and when the process listens both provisioners have been called
C21_StartupCompletes ==
    load.file = "part_000" =>
        /\ process # "aborted"
        /\ process = "listening" => \A p \in Provisioners : prov[p] # "notCalled"

===========================================================================
